---------------------------- MODULE Spec2Model ----------------------------
(***************************************************************************)
(* A model of the sectional composition engine of image2sound              *)
(* (src/image2sound/compose.py): the Section Planner                       *)
(* (_create_section_structure), the Voice Composer (_compose_voice_track), *)
(* the Transition Generator (_create_transition_notes) and the             *)
(* orchestrator compose_track; of the renderer render_wav                  *)
(* (src/image2sound/synth.py); and of the mapper map_features_to_music     *)
(* (src/image2sound/mapping.py).                                           *)
(*                                                                         *)
(* Real numbers are kept exact as scaled integers:                         *)
(*   activity, gain, mode_bias, density_multiplier, random() : tenths      *)
(*   velocity                                   : ten-thousandths          *)
(*   pan                                        : hundredths               *)
(*   time (start, dur) : units of 1/(1000*bpm) second, so that             *)
(*       spb = 60/bpm s = 60000 units and 1 s = 1000*bpm units.            *)
(***************************************************************************)
EXTENDS Integers, Sequences, FiniteSets, TLC

VARIABLES
    voices,         \* p.voices: sequence of VoiceSpec records
    root,           \* p.root
    mode,           \* p.mode
    bpm,            \* p.bpm
    duration,       \* p.duration, whole seconds
    meter,          \* p.meter = <<numerator, denominator>>
    pc,             \* position of the run
    error,          \* the exception that ended the run, "" when none
    seed,           \* compose_track: the seed handed to default_rng
    rng,            \* state of the seeded generator
    track_scale,    \* _compose_voice_track / _scale_midi: the scale
    initial_beats,  \* compose_track: int(p.duration / spb)
    sections,       \* list of Section records
    total_beats,    \* bar-aligned beat count returned by the planner
    vi,             \* compose_track: index i of the voice being composed
    si,             \* index (1-based) of the section being visited
    inloop,         \* TRUE inside the while loop of _compose_voice_track
    beat,           \* _compose_voice_track: the beat counter
    beat_interval,  \* _compose_voice_track: the beat step of the current section
    all_notes,      \* compose_track: all_notes, in insertion order
    sorted_notes,   \* compose_track: the returned list
    notes,          \* render_wav: the note list to render
    sr,             \* render_wav: the sample rate, samples per second
    y,              \* render_wav: the stereo buffer, a list of <<left, right>>
    processed,      \* render_wav: the number of notes the loop has passed
    np_random,      \* state of NumPy's global generator (np.random)
    synthesized,    \* render_wav: the instrument each mixed voice note used
    feats,          \* map_features_to_music: the ImageFeatures record
    style,          \* map_features_to_music: the style
    target_duration,\* map_features_to_music: the requested duration
    music           \* map_features_to_music: the returned MusicParams

vars == <<voices, root, mode, bpm, duration, meter, pc, error, seed, rng,
          track_scale, initial_beats,
          sections, total_beats, vi, si, inloop, beat, beat_interval,
          all_notes, sorted_notes, notes, sr, y, processed, np_random,
          synthesized, feats, style, target_duration, music>>

\* the variables of the renderer and of the mapper, and their values in
\* runs that neither render nor map
render_vars == <<notes, sr, y, processed, np_random, synthesized>>
map_vars == <<feats, style, target_duration, music>>
render_idle ==
    /\ notes = <<>> /\ sr = 0 /\ y = <<>> /\ processed = 0
    /\ np_random = 0 /\ synthesized = <<>>
map_idle == feats = <<>> /\ style = "" /\ target_duration = 0 /\ music = <<>>

-----------------------------------------------------------------------------
(* Bounds of the model *)

MaxVoices == 3         \* longest voice list of a composition run
MaxPlanVoices == 6     \* longest voice list handed to the planner alone
MaxPlanBeats == 40     \* largest requested beat count handed to the planner
MinPlanBeats == 6      \* the planner is also tried on requests down to -MinPlanBeats
MaxNumer == 6          \* largest meter numerator handed to the planner
MaxBeats == 40         \* largest initial beat count of a composition run
MaxSeed == 1           \* seeds 0..MaxSeed
RngMod == 16           \* the generator has RngMod states

-----------------------------------------------------------------------------
(* Helpers *)

Max(a, b) == IF a >= b THEN a ELSE b
Min(a, b) == IF a <= b THEN a ELSE b
Range(s) == {s[i] : i \in DOMAIN s}

\* Python's int(x) on a quotient n/d with d > 0: truncation toward zero
TruncDiv(n, d) == IF n >= 0 THEN n \div d ELSE -((-n) \div d)

-----------------------------------------------------------------------------
(* mapping.py: MODES, METERS; compose.py: the root names of _scale_midi *)

MODES == [ionian     |-> <<0, 2, 4, 5, 7, 9, 11>>,
          dorian     |-> <<0, 2, 3, 5, 7, 9, 10>>,
          phrygian   |-> <<0, 1, 3, 5, 7, 8, 10>>,
          lydian     |-> <<0, 2, 4, 6, 7, 9, 11>>,
          mixolydian |-> <<0, 2, 4, 5, 7, 9, 10>>,
          aeolian    |-> <<0, 2, 3, 5, 7, 8, 10>>,
          harm_minor |-> <<0, 2, 3, 5, 7, 8, 11>>]

METERS == {<<4, 4>>, <<3, 4>>, <<6, 8>>, <<5, 4>>}

names == <<"C", "C#", "D", "Eb", "E", "F", "F#", "G", "Ab", "A", "Bb", "B">>

-----------------------------------------------------------------------------
(* _create_section_structure *)

\* a variant that rounds down to whole bars
total_bars_floor(beats, beats_per_bar) ==
    Max(2, beats \div beats_per_bar)

\* line 101-103: round up to whole bars (Python // is floor division), at least 2
total_bars_of(beats, beats_per_bar) ==
    Max(2, (beats + beats_per_bar - 1) \div beats_per_bar)

\* a variant whose very short plan gives A the smaller half
sections_plan_small_a(total_bars) ==
    IF total_bars <= 3
    THEN LET a_bars == total_bars \div 2
         IN  << <<"A", a_bars>>, <<"B", total_bars - a_bars>> >>
    ELSE IF total_bars <= 8
    THEN << <<"A", total_bars \div 3>>, <<"B", total_bars \div 3>>,
            <<"Tutti", total_bars - 2 * (total_bars \div 3)>> >>
    ELSE << <<"A", total_bars \div 4>>, <<"B", total_bars \div 4>>,
            <<"A'", total_bars \div 4>>,
            <<"Tutti", total_bars - 3 * (total_bars \div 4)>> >>

\* a variant that plans a Tutti for 3 bars already
sections_plan_early_tutti(total_bars) ==
    IF total_bars <= 2
    THEN << <<"A", 1>>, <<"B", total_bars - 1>> >>
    ELSE IF total_bars <= 8
    THEN << <<"A", total_bars \div 3>>, <<"B", total_bars \div 3>>,
            <<"Tutti", total_bars - 2 * (total_bars \div 3)>> >>
    ELSE << <<"A", total_bars \div 4>>, <<"B", total_bars \div 4>>,
            <<"A'", total_bars \div 4>>,
            <<"Tutti", total_bars - 3 * (total_bars \div 4)>> >>

\* lines 107-126: the plan, a sequence of <<section name, bars>>
sections_plan(total_bars) ==
    IF total_bars <= 8
    THEN IF total_bars <= 3
         THEN LET a_bars == (total_bars + 1) \div 2
                  b_bars == total_bars - a_bars
              IN  << <<"A", a_bars>>, <<"B", b_bars>> >>
         ELSE LET a_bars == Max(1, total_bars \div 3)
                  b_bars == Max(1, total_bars \div 3)
                  tutti_bars == total_bars - a_bars - b_bars
              IN  << <<"A", a_bars>>, <<"B", b_bars>>, <<"Tutti", tutti_bars>> >>
    ELSE LET a_bars == Max(2, total_bars \div 4)
             b_bars == Max(2, total_bars \div 4)
             a_prime_bars == Max(2, total_bars \div 4)
             tutti_bars == total_bars - a_bars - b_bars - a_prime_bars
         IN  << <<"A", a_bars>>, <<"B", b_bars>>, <<"A'", a_prime_bars>>,
                <<"Tutti", tutti_bars>> >>

\* lines 136-160: list(range(n)) holds 0..n-1
range_list(n) == [k \in 1..n |-> k - 1]

\* a variant that adds the pad of section A one voice too early
active_voices_early_pad(section_name, n) ==
    IF section_name = "A"
    THEN IF n > 2 THEN <<0, n - 1>> ELSE <<0>>
    ELSE IF section_name = "B"
    THEN (IF n > 1 THEN <<1>> ELSE <<0>>) \o (IF n > 4 THEN <<n - 2>> ELSE <<>>)
    ELSE IF section_name = "A'"
    THEN IF n > 2 THEN <<0, 2>> ELSE <<0>>
    ELSE [k \in 1..n |-> k - 1]

active_voices_of(section_name, n) ==
    IF section_name = "A"
    THEN IF n > 3 THEN <<0, n - 1>> ELSE <<0>>
    ELSE IF section_name = "B"
    THEN (IF n > 1 THEN <<1>> ELSE <<0>>) \o (IF n > 4 THEN <<n - 2>> ELSE <<>>)
    ELSE IF section_name = "A'"
    THEN IF n > 2 THEN <<0, 2>> ELSE <<0>>
    ELSE range_list(n)

\* lines 141, 148, 155, 160: density multiplier in tenths
density_multiplier_of(section_name) ==
    IF section_name = "A" THEN 10
    ELSE IF section_name = "B" THEN 10
    ELSE IF section_name = "A'" THEN 12
    ELSE 6

\* a variant that advances by bars instead of beats
end_beat_in_bars(current_beat, bars, beats_per_bar) ==
    current_beat + bars

\* line 134
end_beat_of(current_beat, bars, beats_per_bar) ==
    current_beat + bars * beats_per_bar

\* lines 129-174: the loop over sections_plan, from plan entry i on
RECURSIVE build_sections(_, _, _, _, _)
build_sections(plan, i, current_beat, n, beats_per_bar) ==
    IF i > Len(plan) THEN <<>>
    ELSE LET section_name == plan[i][1]
             bars == plan[i][2]
             start_beat == current_beat
             end_beat == end_beat_of(current_beat, bars, beats_per_bar)
             s == [name |-> section_name,
                   start_beat |-> start_beat,
                   end_beat |-> end_beat,
                   active_voices |-> active_voices_of(section_name, n),
                   density_multiplier |-> density_multiplier_of(section_name),
                   transition |-> (i - 1 < Len(plan) - 1)]
         IN  <<s>> \o build_sections(plan, i + 1, end_beat, n, beats_per_bar)

\* lines 89-176: returns (sections, total_beats)
create_section_structure(vs, beats, m) ==
    LET beats_per_bar == m[1]
        total_bars == total_bars_of(beats, beats_per_bar)
    IN  [sections |-> build_sections(sections_plan(total_bars), 1, 0,
                                     Len(vs), beats_per_bar),
         total_beats |-> total_bars * beats_per_bar]

-----------------------------------------------------------------------------
(* The seeded generator (numpy.random.Generator).  Its state is one of      *)
(* RngMod values; every draw reads the state and advances it.               *)

rng_next(s) == (5 * s + 3) % RngMod

\* rng.random(): uniform in [0,1), in tenths (0..9)
rng_random(s) == (10 * s) \div RngMod

\* rng.choice(list of k): the 1-based index of the chosen element
rng_choice(s, k) == ((k * s) \div RngMod) + 1

\* rng.uniform(-0.3, 0.3), in hundredths
rng_uniform_pan(s) == -30 + ((60 * s) \div RngMod)

\* np.random.default_rng(seed): the generator state a seed leads to
default_rng(sd) == sd % RngMod

\* the built-in hash() of a str: a digest of the process's hash salt
\* (PYTHONHASHSEED, drawn at interpreter start) and of the string, here the
\* string p.root + p.mode + str(p.bpm) given by its three parts
mode_names == <<"ionian", "dorian", "phrygian", "lydian", "mixolydian",
                "aeolian", "harm_minor">>
str_code(r, m, t) ==
    (IF \E i \in DOMAIN names : names[i] = r
     THEN CHOOSE i \in DOMAIN names : names[i] = r ELSE 0)
    + 13 * (IF \E i \in DOMAIN mode_names : mode_names[i] = m
            THEN CHOOSE i \in DOMAIN mode_names : mode_names[i] = m ELSE 0)
    + 104 * t
str_hash(salt, r, m, t) == 7 * salt + str_code(r, m, t)

\* line 318: hash(p.root + p.mode + str(p.bpm)) & 0xFFFFFFFF; the digests of
\* str_hash are non-negative and below 2^31, and the mask keeps the low 32
\* bits of such a value as they are
seed_of(salt, r, m, t) == str_hash(salt, r, m, t)

-----------------------------------------------------------------------------
(* _scale_midi *)

index_of(seq, x) == CHOOSE i \in DOMAIN seq : seq[i] = x

\* line 38: MODES.get(mode, MODES["ionian"])
mode_pattern(m) == IF m \in DOMAIN MODES THEN MODES[m] ELSE MODES["ionian"]

\* a variant that does not fold the pitches into one octave
scale_midi_unfolded(r, m) ==
    LET root_ix == index_of(names, r) - 1
        pattern == mode_pattern(m)
    IN  [k \in DOMAIN pattern |-> 60 + root_ix + pattern[k]]

\* lines 36-39 (names.index is 0-based)
scale_midi(r, m) ==
    LET root_ix == index_of(names, r) - 1
        pattern == mode_pattern(m)
    IN  [k \in DOMAIN pattern |-> 60 + ((root_ix + pattern[k]) % 12)]

-----------------------------------------------------------------------------
(* _apply_mode_bias: returns the note and the generator state after it *)

Abs(x) == IF x >= 0 THEN x ELSE -x

\* line 58, first conjunct: abs(mode_bias) > 0.3 (mode_bias in tenths)
bias_applies(mode_bias) == Abs(mode_bias) > 3

\* line 58, second conjunct: rng.random() < abs(mode_bias) * 0.5
bias_fires(mode_bias, s) == 2 * rng_random(s) < Abs(mode_bias)

apply_mode_bias(scale_notes, mode_bias, b, s) ==
    LET base_note == scale_notes[(b % Len(scale_notes)) + 1]
    IN  IF bias_applies(mode_bias)
        THEN IF bias_fires(mode_bias, s)
             THEN IF mode_bias > 0
                  THEN LET s2 == rng_next(s)
                           offset == <<-1, 1>>[rng_choice(s2, 2)]
                       IN  [note |-> base_note + offset, rng |-> rng_next(s2)]
                  ELSE [note |-> base_note, rng |-> rng_next(s)]
             ELSE [note |-> base_note, rng |-> rng_next(s)]
        ELSE [note |-> base_note, rng |-> s]

-----------------------------------------------------------------------------
(* _compose_voice_track *)

\* np.clip(x, lo, hi)
clip(x, lo, hi) == Max(lo, Min(hi, x))

\* a variant that leaves the pitch unclamped
clip_midi_none(x) == x

\* line 273: the piano range
clip_midi(x) == clip(x, 21, 108)

id_str(i) == <<"0", "1", "2", "3", "4", "5", "6", "7", "8", "9">>[i + 1]

\* line 243: f"voice_{voice_id}_{voice.instrument}", kept as the sequence of
\* its "_"-separated tokens (an instrument id is itself such a sequence)
track_name_of(voice_id, instrument) == <<"voice", id_str(voice_id)>> \o instrument

\* line 251: voice.activity * section.density_multiplier, in hundredths
effective_activity_of(voice, section) == voice.activity * section.density_multiplier

\* Python's round() of n/d for n, d > 0: to nearest, ties to even
RoundHalfEven(n, d) ==
    LET q == n \div d
        r == n % d
    IN  IF 2 * r < d THEN q
        ELSE IF 2 * r > d THEN q + 1
        ELSE IF q % 2 = 0 THEN q ELSE q + 1

\* a variant that rounds the reciprocal to the nearest integer
beat_interval_rounded(effective_activity) ==
    Max(1, RoundHalfEven(100, effective_activity))

\* a variant without the floor of one beat
beat_interval_unfloored(effective_activity) == TruncDiv(100, effective_activity)

\* line 252: max(1, int(1.0 / effective_activity))
beat_interval_of(effective_activity) == Max(1, TruncDiv(100, effective_activity))

\* lines 255-259
register_variation_of(section) == IF section.name = "A'" THEN 2 ELSE 0

\* lines 276-280: spb * (0.8 + 0.4 * r), then * 0.7 or * 1.4; r in tenths,
\* result in time units (spb = 60000 units)
base_duration_of(effective_activity, r) ==
    LET base == 48000 + 2400 * r
    IN  IF effective_activity > 150 THEN (base * 7) \div 10
        ELSE IF effective_activity < 70 THEN (base * 14) \div 10
        ELSE base

\* lines 283-285: voice.gain * (0.7 + 0.3 * r), * 0.8 in Tutti; gain and r in
\* tenths, result in ten-thousandths
base_velocity_of(gain, section, r) ==
    LET v == gain * (70 + 3 * r)
    IN  IF section.name = "Tutti" THEN v * 8 ELSE v * 10

\* lines 264-294: one iteration of the while loop; the note and the generator
\* state after its draws
voice_note(voice, voice_id, section, b, s) ==
    LET base_register == 60 + (voice.octave * 12)
        effective_activity == effective_activity_of(voice, section)
        picked == apply_mode_bias(track_scale, voice.mode_bias, b, s)
        midi_note == clip_midi(picked.note - 60 + base_register
                               + register_variation_of(section))
        s1 == picked.rng
        s2 == rng_next(s1)
    IN  [note |-> [start |-> b * 60000,
                   dur   |-> base_duration_of(effective_activity, rng_random(s1)),
                   midi  |-> midi_note,
                   vel   |-> base_velocity_of(voice.gain, section, rng_random(s2)),
                   track |-> track_name_of(voice_id, voice.instrument),
                   pan   |-> voice.pan],
         rng |-> rng_next(s2)]

-----------------------------------------------------------------------------
(* _create_transition_notes(start_time, duration = 1.0, rng) *)

\* a variant with two hits per second
fill_hits_halved(dur_s) == Max(2, dur_s * 2)

\* line 207: max(2, int(duration * 4)) with duration in whole seconds
fill_hits_of(dur_s) == Max(2, dur_s * 4)

\* lines 208-218: hits i..fill_hits-1 of a fill (i is 0-based)
RECURSIVE fill_notes(_, _, _, _, _)
fill_notes(start_time, dur_s, i, fill_hits, s) ==
    IF i >= fill_hits THEN [notes |-> <<>>, rng |-> s]
    ELSE LET s2 == rng_next(s)
             hit == [start |-> start_time + (i * dur_s * 1000 * bpm) \div fill_hits,
                     dur   |-> 100 * bpm,
                     midi  |-> <<36, 38, 42>>[rng_choice(s, 3)],
                     vel   |-> 4000,
                     track |-> <<"transition", "fill">>,
                     pan   |-> rng_uniform_pan(s2)]
             rest == fill_notes(start_time, dur_s, i + 1, fill_hits, rng_next(s2))
         IN  [notes |-> <<hit>> \o rest.notes, rng |-> rest.rng]

\* lines 190-220
create_transition_notes(start_time, dur_s, s) ==
    LET transition_type == <<"swell", "fill">>[rng_choice(s, 2)]
    IN  IF transition_type = "swell"
        THEN [notes |-> << [start |-> start_time,
                            dur   |-> dur_s * 1000 * bpm,
                            midi  |-> 49,
                            vel   |-> 3000,
                            track |-> <<"transition", "swell">>,
                            pan   |-> 0] >>,
              rng |-> rng_next(s)]
        ELSE fill_notes(start_time, dur_s, 0, fill_hits_of(dur_s), rng_next(s))

\* a variant that counts back from the section's start
transition_start_from_start(section) == section.start_beat * 60000 - 500 * bpm

\* a variant that starts the window 1.5 s before the section's end
transition_start_early(section) == section.end_beat * 60000 - 1500 * bpm

\* line 367: section.end_beat * spb - 0.5, in time units
transition_start_of(section) == section.end_beat * 60000 - 500 * bpm

-----------------------------------------------------------------------------
(* sorted(all_notes, key=lambda n: n.start): a stable sort *)

\* a variant that puts a note before the notes of equal start
insert_sorted_unstable(sorted, n) ==
    IF sorted = <<>> THEN <<n>>
    ELSE IF sorted[Len(sorted)].start < n.start THEN Append(sorted, n)
    ELSE LET k == CHOOSE k \in 1..Len(sorted) :
                    /\ sorted[k].start >= n.start
                    /\ \A m \in 1..(k-1) : sorted[m].start < n.start
         IN  SubSeq(sorted, 1, k-1) \o <<n>> \o SubSeq(sorted, k, Len(sorted))

RECURSIVE insert_sorted(_, _)
insert_sorted(sorted, n) ==
    IF sorted = <<>> THEN <<n>>
    ELSE IF sorted[Len(sorted)].start <= n.start THEN Append(sorted, n)
    ELSE Append(insert_sorted(SubSeq(sorted, 1, Len(sorted) - 1), n),
                sorted[Len(sorted)])

RECURSIVE sort_by_start(_, _)
sort_by_start(ns, k) ==
    IF k = 0 THEN <<>>
    ELSE insert_sorted(sort_by_start(ns, k - 1), ns[k])

-----------------------------------------------------------------------------
(* Inputs of a composition run *)

\* VoiceSpec records (mapping.VoiceSpec; the fields compose.py reads).
\* mock_voice is the voice of tests/test_pipeline_smoke.py.
mock_voice == [instrument |-> <<"pluck">>, mode_bias |-> 0, pan |-> 0,
               gain |-> 8, octave |-> 0, activity |-> 10]
high_voice == [instrument |-> <<"pad", "glass">>, mode_bias |-> 8, pan |-> -50,
               gain |-> 15, octave |-> 3, activity |-> 5]
low_voice  == [instrument |-> <<"bell">>, mode_bias |-> -8, pan |-> 50,
               gain |-> 10, octave |-> -4, activity |-> 20]

VoiceProfiles == {mock_voice, high_voice, low_voice}

VoiceLists(maxn) == UNION {[1..n -> VoiceProfiles] : n \in 0..maxn}

\* <<root, mode>> of a run
KeyVals == {<<"C", "ionian">>, <<"B", "phrygian">>}
\* keys the composer does not know: a root outside names, a mode outside MODES
BadKeyVals == {<<"H", "ionian">>, <<"C", "locrian">>}
\* tempo: the test's 120, the mapper's maximum 160, a fast 600, and 0
BpmVals == {0, 120, 160, 600}
\* requested duration in whole seconds
DurVals == {-2, 0, 5, 14}

\* line 320-321: int(p.duration / spb) with spb = 60.0 / p.bpm
initial_beats_of(dur_s, tempo) == TruncDiv(dur_s * tempo, 60)

Init ==
    /\ voices \in VoiceLists(MaxVoices)
    /\ \E k \in KeyVals \cup BadKeyVals : root = k[1] /\ mode = k[2]
    /\ bpm \in BpmVals
    /\ duration \in DurVals
    /\ initial_beats_of(duration, bpm) <= MaxBeats
    /\ meter \in METERS
    /\ pc = "start"
    /\ error = ""
    /\ render_idle /\ map_idle
    /\ seed = 0
    /\ rng = 0
    /\ track_scale = <<>>
    /\ initial_beats = 0
    /\ sections = <<>>
    /\ total_beats = 0
    /\ vi = 0
    /\ si = 0
    /\ inloop = FALSE
    /\ beat = 0
    /\ beat_interval = 0
    /\ all_notes = <<>>
    /\ sorted_notes = <<>>

params == <<voices, root, mode, bpm, duration, meter>>

-----------------------------------------------------------------------------
(* compose_track *)

\* line 339: p.voices[i] for i in section.active_voices, over all sections
display_indexes_ok(secs, n) ==
    \A i \in DOMAIN secs : \A v \in Range(secs[i].active_voices) : v < n

\* lines 317-346, up to the loop over the voices: seed the generator (the
\* seed is a str hash, salted per process), compute spb (line 320), plan the
\* sections (line 330), print the scale (line 335: MODES[p.mode]) and the
\* section structure (line 339: p.voices[i])
ComposeBegin ==
    /\ pc = "start"
    /\ \E salt \in 0..MaxSeed :
          /\ seed' = seed_of(salt, root, mode, bpm)
          /\ rng' = default_rng(seed')
    /\ IF bpm = 0
       THEN /\ pc' = "error" /\ error' = "ZeroDivisionError"
            /\ UNCHANGED <<initial_beats, sections, total_beats, vi, si>>
       ELSE /\ initial_beats' = initial_beats_of(duration, bpm)
            /\ LET plan == create_section_structure(voices, initial_beats', meter)
               IN  /\ sections' = plan.sections
                   /\ total_beats' = plan.total_beats
                   /\ IF mode \notin DOMAIN MODES
                      THEN pc' = "error" /\ error' = "KeyError"
                      ELSE IF ~display_indexes_ok(plan.sections, Len(voices))
                      THEN pc' = "error" /\ error' = "IndexError"
                      ELSE /\ error' = error
                           /\ pc' = IF Len(voices) = 0 THEN "transitions"
                                    ELSE "call_voice"
            /\ vi' = 0
            /\ si' = 1
    /\ UNCHANGED <<render_vars, map_vars, params, track_scale, inloop, beat, beat_interval, all_notes,
                   sorted_notes>>

\* _compose_voice_track lines 236-243: the scale of the voice's track
\* (names.index(root) raises ValueError for a root outside names)
ComposeVoiceEntry ==
    /\ pc = "call_voice"
    /\ IF root \in Range(names)
       THEN /\ track_scale' = scale_midi(root, mode)
            /\ pc' = "voices"
            /\ error' = error
       ELSE /\ pc' = "error" /\ error' = "ValueError"
            /\ UNCHANGED track_scale
    /\ UNCHANGED <<render_vars, map_vars, params, seed, rng, initial_beats, sections, total_beats, vi,
                   si, inloop, beat, beat_interval, all_notes, sorted_notes>>

\* _compose_voice_track lines 246-248: the voice is not active in the section
SkipSection ==
    /\ pc = "voices" /\ ~inloop /\ si <= Len(sections)
    /\ vi \notin Range(sections[si].active_voices)
    /\ si' = si + 1
    /\ UNCHANGED <<render_vars, map_vars, params, error, seed, track_scale, pc, rng, initial_beats, sections, total_beats, vi,
                   inloop, beat, beat_interval, all_notes, sorted_notes>>

\* lines 250-262: the voice is active; enter the while loop at start_beat
EnterSection ==
    /\ pc = "voices" /\ ~inloop /\ si <= Len(sections)
    /\ vi \in Range(sections[si].active_voices)
    /\ inloop' = TRUE
    /\ beat_interval' = beat_interval_of(effective_activity_of(voices[vi + 1],
                                                               sections[si]))
    /\ beat' = sections[si].start_beat
    /\ UNCHANGED <<render_vars, map_vars, params, error, seed, track_scale, pc, rng, initial_beats, sections, total_beats, vi, si,
                   all_notes, sorted_notes>>

\* lines 263-297: one iteration of the while loop
EmitNote ==
    /\ pc = "voices" /\ inloop
    /\ beat < sections[si].end_beat
    /\ LET voice == voices[vi + 1]
           section == sections[si]
           made == voice_note(voice, vi, section, beat, rng)
       IN  /\ all_notes' = Append(all_notes, made.note)
           /\ rng' = made.rng
           /\ beat' = beat + beat_interval
    /\ UNCHANGED <<render_vars, map_vars, params, error, seed, track_scale, pc, initial_beats, sections, total_beats, vi, si,
                   inloop, beat_interval, sorted_notes>>

\* line 263: the while condition fails; on to the next section
LeaveSection ==
    /\ pc = "voices" /\ inloop
    /\ beat >= sections[si].end_beat
    /\ inloop' = FALSE
    /\ si' = si + 1
    /\ UNCHANGED <<render_vars, map_vars, params, error, seed, track_scale, pc, rng, initial_beats, sections, total_beats, vi,
                   beat, beat_interval, all_notes, sorted_notes>>

\* compose_track lines 348-353: _compose_voice_track returned; next voice
NextVoice ==
    /\ pc = "voices" /\ ~inloop /\ si > Len(sections)
    /\ vi' = vi + 1
    /\ si' = 1
    /\ pc' = IF vi + 1 >= Len(voices) THEN "transitions" ELSE "call_voice"
    /\ UNCHANGED <<render_vars, map_vars, params, error, seed, track_scale, rng, initial_beats, sections, total_beats, inloop,
                   beat, beat_interval, all_notes, sorted_notes>>

\* lines 364-371: a section with a trailing transition
AddTransition ==
    /\ pc = "transitions" /\ si <= Len(sections)
    /\ sections[si].transition
    /\ LET made == create_transition_notes(transition_start_of(sections[si]), 1, rng)
       IN  /\ all_notes' = all_notes \o made.notes
           /\ rng' = made.rng
    /\ si' = si + 1
    /\ UNCHANGED <<render_vars, map_vars, params, error, seed, track_scale, pc, initial_beats, sections, total_beats, vi, inloop,
                   beat, beat_interval, sorted_notes>>

\* line 365: the last section has no transition
NoTransition ==
    /\ pc = "transitions" /\ si <= Len(sections)
    /\ ~sections[si].transition
    /\ si' = si + 1
    /\ UNCHANGED <<render_vars, map_vars, params, error, seed, track_scale, pc, rng, initial_beats, sections, total_beats, vi,
                   inloop, beat, beat_interval, all_notes, sorted_notes>>

\* lines 380-383: sort by start time and return
SortAndReturn ==
    /\ pc = "transitions" /\ si > Len(sections)
    /\ sorted_notes' = sort_by_start(all_notes, Len(all_notes))
    /\ pc' = "done"
    /\ UNCHANGED <<render_vars, map_vars, params, error, seed, track_scale, rng, initial_beats, sections, total_beats, vi, si,
                   inloop, beat, beat_interval, all_notes>>

Next ==
    \/ ComposeBegin
    \/ ComposeVoiceEntry
    \/ SkipSection
    \/ EnterSection
    \/ EmitNote
    \/ LeaveSection
    \/ NextVoice
    \/ AddTransition
    \/ NoTransition
    \/ SortAndReturn

Spec == Init /\ [][Next]_vars

-----------------------------------------------------------------------------
(* The Section Planner on its own: _create_section_structure applied to     *)
(* every voice count, requested beat count and meter of the bounds.         *)

InitPlan ==
    /\ voices \in {[k \in 1..n |-> mock_voice] : n \in 0..MaxPlanVoices}
    /\ initial_beats \in (0 - MinPlanBeats)..MaxPlanBeats
    /\ meter \in (1..MaxNumer) \X {4, 8}
    /\ root = "C"
    /\ mode = "ionian"
    /\ bpm = 120
    /\ duration = 0
    /\ pc = "plan"
    /\ error = ""
    /\ render_idle /\ map_idle
    /\ seed = 0
    /\ rng = 0
    /\ track_scale = <<>>
    /\ sections = <<>>
    /\ total_beats = 0
    /\ vi = 0
    /\ si = 0
    /\ inloop = FALSE
    /\ beat = 0
    /\ beat_interval = 0
    /\ all_notes = <<>>
    /\ sorted_notes = <<>>

PlanSections ==
    /\ pc = "plan"
    /\ LET plan == create_section_structure(voices, initial_beats, meter)
       IN  /\ sections' = plan.sections
           /\ total_beats' = plan.total_beats
    /\ pc' = "planned"
    /\ UNCHANGED <<render_vars, map_vars, params, error, seed, track_scale, rng, initial_beats, vi, si, inloop, beat,
                   beat_interval, all_notes, sorted_notes>>

NextPlan == PlanSections

SpecPlan == InitPlan /\ [][NextPlan]_vars

-----------------------------------------------------------------------------
(* Properties of the Section Planner (checked under SpecPlan) *)

planned == pc = "planned"
beats_per_bar_now == meter[1]
section_beats(i) == sections[i].end_beat - sections[i].start_beat
section_names == [i \in DOMAIN sections |-> sections[i].name]

\* C1: for every voice count >= 1, requested beat count and meter, the
\* returned sections tile [0, total_beats): the first starts at 0, each starts
\* where the previous one ends, the last ends at total_beats, none is empty
\* and no two overlap.
C1_SectionsTile ==
    (planned /\ Len(voices) >= 1) =>
        /\ Len(sections) >= 1
        /\ sections[1].start_beat = 0
        /\ \A i \in 2..Len(sections) :
              sections[i].start_beat = sections[i - 1].end_beat
        /\ sections[Len(sections)].end_beat = total_beats
        /\ \A i \in DOMAIN sections : sections[i].start_beat < sections[i].end_beat
        /\ \A i, j \in DOMAIN sections :
              i < j => sections[i].end_beat <= sections[j].start_beat

\* a four-section plan whose total was rounded up, for a meter of several beats
C1_Witness ==
    /\ planned /\ Len(voices) >= 1
    /\ Len(sections) = 4
    /\ beats_per_bar_now >= 3
    /\ total_beats > initial_beats

\* C2: the returned total is the requested beat count rounded up to a whole
\* number of bars, and at least 2 bars, also for requests of 0 or less.
C2_TotalRoundedUp ==
    planned =>
        /\ total_beats % beats_per_bar_now = 0
        /\ total_beats >= 2 * beats_per_bar_now
        /\ total_beats >= initial_beats
        /\ \/ total_beats = 2 * beats_per_bar_now
           \/ total_beats - beats_per_bar_now < initial_beats

\* a negative request planned as exactly 2 bars
C2_Witness ==
    /\ planned
    /\ initial_beats < 0
    /\ total_beats = 2 * beats_per_bar_now

\* C3: the plan follows the rounded bar count: <= 3 bars gives A, B with A the
\* larger half; 4..8 bars gives A, B, Tutti with A = B = floor(bars/3) and the
\* rest to Tutti; > 8 bars gives A, B, A', Tutti with A = B = A' =
\* floor(bars/4) and the rest to Tutti; every section has at least one bar.
C3_PlanByBarCount ==
    planned =>
        LET bpb == beats_per_bar_now
            tb == total_beats \div bpb
            bars == [i \in DOMAIN sections |-> section_beats(i) \div bpb]
        IN  /\ \A i \in DOMAIN sections :
                  section_beats(i) % bpb = 0 /\ bars[i] >= 1
            /\ tb <= 3 =>
                  /\ section_names = <<"A", "B">>
                  /\ bars[1] + bars[2] = tb
                  /\ 2 * bars[1] \in {tb, tb + 1}
            /\ (tb >= 4 /\ tb <= 8) =>
                  /\ section_names = <<"A", "B", "Tutti">>
                  /\ bars[1] = tb \div 3 /\ bars[2] = tb \div 3
                  /\ bars[3] = tb - 2 * (tb \div 3)
            /\ tb > 8 =>
                  /\ section_names = <<"A", "B", "A'", "Tutti">>
                  /\ bars[1] = tb \div 4 /\ bars[2] = tb \div 4
                  /\ bars[3] = tb \div 4
                  /\ bars[4] = tb - 3 * (tb \div 4)

\* an odd, very short plan: 3 bars
C3_Witness ==
    /\ planned
    /\ total_beats = 3 * beats_per_bar_now
    /\ Len(sections) = 2

the_3_bar_request ==
    planned /\ Len(voices) >= 1 /\ initial_beats = 12 /\ meter = <<4, 4>>

\* C4 as stated: total_beats=12 in 4/4 yields exactly A and B, each covering
\* 6 beats, contiguous.
C4_Original ==
    the_3_bar_request =>
        /\ section_names = <<"A", "B">>
        /\ section_beats(1) = 6 /\ section_beats(2) = 6
        /\ sections[2].start_beat = sections[1].end_beat

\* C4 amended: total_beats=12 in 4/4 (3 bars) yields exactly A and B,
\* contiguous, A covering 2 bars = beats [0, 8) and B 1 bar = beats [8, 12).
C4_ThreeBarPlan ==
    the_3_bar_request =>
        /\ section_names = <<"A", "B">>
        /\ sections[1].start_beat = 0 /\ sections[1].end_beat = 8
        /\ sections[2].start_beat = 8 /\ sections[2].end_beat = 12
        /\ total_beats = 12

C4_Witness == the_3_bar_request /\ Len(sections) = 2

\* C5: active voices per section for n >= 1 voices: A = {0} plus n-1 when
\* n >= 4; B = {1} ({0} when n = 1) plus n-2 when n >= 5; A' = {0} plus 2 when
\* n >= 3; Tutti = 0..n-1.
C5_ActiveVoices ==
    (planned /\ Len(voices) >= 1) =>
        LET n == Len(voices)
        IN  \A i \in DOMAIN sections :
              LET act == Range(sections[i].active_voices)
                  nm == sections[i].name
              IN  /\ nm = "A" => act = {0} \cup (IF n >= 4 THEN {n - 1} ELSE {})
                  /\ nm = "B" => act = (IF n = 1 THEN {0} ELSE {1})
                                       \cup (IF n >= 5 THEN {n - 2} ELSE {})
                  /\ nm = "A'" => act = {0} \cup (IF n >= 3 THEN {2} ELSE {})
                  /\ nm = "Tutti" => act = 0..(n - 1)
                  /\ nm \in {"A", "B", "A'", "Tutti"}

\* five voices in a four-section plan: both pads and the variation voice
C5_Witness ==
    /\ planned
    /\ Len(voices) = 5
    /\ Len(sections) = 4
    /\ Range(sections[1].active_voices) = {0, 4}
    /\ Range(sections[2].active_voices) = {1, 3}

\* C6 as stated: every planned section has a density multiplier in (0, 1]
\* (tenths: 1..10).
C6_DensityInUnitInterval ==
    (planned /\ Len(voices) >= 1 /\ meter \in METERS) =>
        \A i \in DOMAIN sections :
            /\ sections[i].density_multiplier > 0
            /\ sections[i].density_multiplier <= 10

-----------------------------------------------------------------------------
(* Properties of the Voice Composer and of compose_track (checked under Spec) *)

is_voice_note(n) == n.track[1] = "voice"
is_transition_note(n) == n.track[1] = "transition"
composed == Range(all_notes)
returned == Range(sorted_notes)

\* the effective activity (hundredths) of the voice and section being composed
effective_activity_now == effective_activity_of(voices[vi + 1], sections[si])

\* C7 as stated: inside the note loop the beat step is
\* max(1, round(1 / (activity * density_multiplier))), rounded to nearest.
C7_Original ==
    (pc = "voices" /\ inloop) =>
        beat_interval = Max(1, RoundHalfEven(100, effective_activity_now))

\* C7 amended: the beat step is max(1, int(1 / (activity * density))), the
\* reciprocal truncated toward zero: the largest k >= 1 with
\* k * activity * density <= 1, or 1 when there is none.
C7_StepTruncated ==
    (pc = "voices" /\ inloop) =>
        LET e == effective_activity_now
            k == beat_interval
        IN  /\ k >= 1
            /\ (k + 1) * e > 100
            /\ k * e <= 100 \/ (k = 1 /\ e > 100)

\* a voice of activity 1.0 inside Tutti (density 0.6): 1/0.6 = 1.67 gives step 1
C7_Witness ==
    /\ pc = "voices" /\ inloop
    /\ effective_activity_now = 60
    /\ beat_interval = 1
    /\ beat > sections[si].start_beat

\* C8: every note of a voice has a pitch in [21, 108].
C8_PitchInPianoRange ==
    \A n \in composed \cup returned :
        is_voice_note(n) => (n.midi \in Int /\ n.midi >= 21 /\ n.midi <= 108)

\* a run that returned notes clamped at both ends of the range, one of them
\* in an A' section (the +2 shift)
C8_Witness ==
    /\ pc = "done"
    /\ \E n \in returned : is_voice_note(n) /\ n.midi = 108
    /\ \E n \in returned : is_voice_note(n) /\ n.midi = 21
    /\ \E i \in DOMAIN sections : sections[i].name = "A'"

\* C9 as stated: every returned note has velocity in [0, 1] (ten-thousandths:
\* 0..10000) whenever every voice has gain >= 0.
C9_VelocityInUnitInterval ==
    (pc = "done" /\ Len(voices) >= 1 /\ \A i \in DOMAIN voices : voices[i].gain >= 0) =>
        \A n \in returned : n.vel >= 0 /\ n.vel <= 10000

\* C10 as stated: every returned note has start >= 0 and duration > 0, for
\* every tempo > 0, meter and duration.
C10_Original ==
    (pc = "done" /\ Len(voices) >= 1 /\ bpm > 0) =>
        \A n \in returned : n.start >= 0 /\ n.dur > 0

\* C10 amended: every note has duration > 0, every voice note has start >= 0,
\* and every transition note has start >= 0 when bpm <= 120 * meter numerator
\* (one bar lasts at least 0.5 s), as for every tempo up to 160 in the meters
\* of METERS.
C10_StartAndDuration ==
    \A n \in composed \cup returned :
        /\ n.dur > 0
        /\ is_voice_note(n) => n.start >= 0
        /\ (bpm > 0 /\ bpm <= 120 * meter[1]) => n.start >= 0

\* a returned transition note that starts within the first second, at 160 bpm
C10_Witness ==
    /\ pc = "done"
    /\ bpm = 160
    /\ \E n \in returned :
          is_transition_note(n) /\ n.start >= 0 /\ n.start < 1000 * bpm

-----------------------------------------------------------------------------
(* The returned order (compose_track line 381) *)

\* the place of a note in the list the run collected (all_notes)
place_of(n) == CHOOSE k \in DOMAIN all_notes : all_notes[k] = n

\* the 0-based index of the voice a voice note belongs to
voice_index_of(n) == CHOOSE k \in 0..MaxPlanVoices : id_str(k) = n.track[2]

\* C11: the returned list holds the collected notes in non-decreasing order of
\* start, and notes of equal start keep their insertion order: voice notes in
\* the order of their voice index first, then transition notes in the order
\* of their sections.
C11_SortedStable ==
    pc = "done" =>
        /\ Len(sorted_notes) = Len(all_notes)
        /\ Range(sorted_notes) = Range(all_notes)
        /\ \A i, j \in DOMAIN sorted_notes :
              i < j =>
                /\ sorted_notes[i].start <= sorted_notes[j].start
                /\ sorted_notes[i].start = sorted_notes[j].start =>
                     /\ place_of(sorted_notes[i]) < place_of(sorted_notes[j])
                     /\ ~(is_transition_note(sorted_notes[i])
                          /\ is_voice_note(sorted_notes[j]))
                     /\ (is_voice_note(sorted_notes[i])
                         /\ is_voice_note(sorted_notes[j]))
                        => voice_index_of(sorted_notes[i])
                             < voice_index_of(sorted_notes[j])

\* a returned list where a voice note, a note of a later voice and a
\* transition note start together
C11_Witness ==
    /\ pc = "done"
    /\ \E i, j, k \in DOMAIN sorted_notes :
          /\ i < j /\ j < k
          /\ sorted_notes[i].start = sorted_notes[j].start
          /\ sorted_notes[j].start = sorted_notes[k].start
          /\ is_voice_note(sorted_notes[i])
          /\ is_voice_note(sorted_notes[j])
          /\ is_transition_note(sorted_notes[k])

-----------------------------------------------------------------------------
(* The extent and the size of the returned list *)

\* the parameters of tests/test_pipeline_smoke.py (lines 43-51)
test_params ==
    /\ voices = <<mock_voice>>
    /\ root = "C" /\ mode = "ionian"
    /\ bpm = 120 /\ duration = 5 /\ meter = <<4, 4>>

\* C12: every returned note ends no later than the requested duration (the
\* MusicParams.duration, before the rounding to whole bars) plus 0.5 s.
C12_EndsWithinDuration ==
    (pc = "done" /\ Len(voices) >= 1 /\ duration >= 0) =>
        \A n \in returned :
            n.start + n.dur <= (1000 * duration + 500) * bpm

-----------------------------------------------------------------------------
(* Reproducibility (compose_track line 318) *)

\* C13: a run with given parameters always produces the same notes, in
\* another process too: the seed of the generator is a function of root, mode
\* and tempo only, so the seed this run used is the seed that every process,
\* whatever its hash salt, derives from these parameters.
C13_SeedSameInEveryProcess ==
    pc # "start" =>
        \A salt \in 0..MaxSeed : seed_of(salt, root, mode, bpm) = seed

-----------------------------------------------------------------------------
(* Transitions (compose_track lines 361-371, _create_transition_notes) *)

\* a step of the loop over the sections that adds the transition of
\* sections[si], and the notes this step adds
transition_step ==
    /\ pc = "transitions" /\ si <= Len(sections)
    /\ sections[si].transition
    /\ si' = si + 1
new_notes == SubSeq(all_notes', Len(all_notes) + 1, Len(all_notes'))

\* the end boundary of a section, in time units
boundary_of(section) == section.end_beat * 60000

\* C14 as stated: the notes of a section's transition lie in a window of one
\* second that ends 0.5 s before the section's end boundary, so none of them
\* sounds at or after the boundary.
C14_Original ==
    [][transition_step =>
         /\ new_notes # <<>>
         /\ \A n \in Range(new_notes) :
               /\ n.start >= boundary_of(sections[si]) - 1500 * bpm
               /\ n.start + n.dur <= boundary_of(sections[si]) - 500 * bpm]_vars

\* C14: the notes of a section's transition lie in a window of one second
\* that starts 0.5 s before the section's end boundary and ends 0.5 s after
\* it; the first of them starts with the window.
C14_WindowAcrossBoundary ==
    [][transition_step =>
         /\ new_notes # <<>>
         /\ new_notes[1].start = boundary_of(sections[si]) - 500 * bpm
         /\ \A n \in Range(new_notes) :
               /\ n.start >= boundary_of(sections[si]) - 500 * bpm
               /\ n.start + n.dur <= boundary_of(sections[si]) + 500 * bpm]_vars

\* the transition of the section before sections[si] has been added and one
\* of its notes sounds after that section's end boundary
C14_Witness ==
    /\ pc = "transitions" /\ si > 1
    /\ sections[si - 1].transition
    /\ \E n \in composed :
          /\ is_transition_note(n)
          /\ n.start < boundary_of(sections[si - 1])
          /\ n.start + n.dur > boundary_of(sections[si - 1])
          /\ n.start + n.dur <= boundary_of(sections[si - 1]) + 500 * bpm


\* the notes a transition step adds are one swell over the whole window
one_swell ==
    /\ Len(new_notes) = 1
    /\ new_notes[1].track = <<"transition", "swell">>
    /\ new_notes[1].start = boundary_of(sections[si]) - 500 * bpm
    /\ new_notes[1].dur = 1000 * bpm

\* the notes a transition step adds are a fill: max(2, floor(4 * 1.0)) = 4
\* hits a quarter of a second apart, each on one of the three drum pitches
\* and panned within [-0.3, 0.3]
one_fill ==
    /\ Len(new_notes) = 4
    /\ \A i \in DOMAIN new_notes :
          /\ new_notes[i].track = <<"transition", "fill">>
          /\ new_notes[i].start
               = boundary_of(sections[si]) - 500 * bpm + (i - 1) * 250 * bpm
          /\ new_notes[i].midi \in {36, 38, 42}
          /\ new_notes[i].pan >= -30 /\ new_notes[i].pan <= 30

\* consecutive hits of a fill are on different drum pitches
pitches_alternate ==
    \A i \in 1..(Len(new_notes) - 1) : new_notes[i].midi # new_notes[i + 1].midi

\* C15 as stated: a transition is either one swell over the whole window or
\* a fill of 4 evenly spaced hits whose pitches alternate among 36, 38 and
\* 42 and whose pan lies in [-0.3, 0.3], never a mixture.
C15_Original ==
    [][transition_step => (one_swell \/ (one_fill /\ pitches_alternate))]_vars

\* C15: a transition is either one swell over the whole window or a fill of
\* 4 evenly spaced hits, each on a pitch drawn from 36, 38 and 42 (a pitch
\* may repeat from one hit to the next) and panned within [-0.3, 0.3], never
\* a mixture.
C15_SwellOrFill ==
    [][transition_step => (one_swell \/ one_fill)]_vars

\* a fill has been added whose first two hits are on the same drum pitch
C15_Witness ==
    /\ pc = "transitions" /\ si > 1
    /\ sections[si - 1].transition
    /\ \E k \in 1..(Len(all_notes) - 3) :
          /\ \A i \in 0..3 :
                /\ all_notes[k + i].track = <<"transition", "fill">>
                /\ all_notes[k + i].start
                     = transition_start_of(sections[si - 1]) + i * 250 * bpm
          /\ all_notes[k].midi = all_notes[k + 1].midi

-----------------------------------------------------------------------------
(* Track names and the number of notes *)

\* C16: for every voice, at 0-based position i of the voices, the returned
\* list holds at least one note whose track is "voice_{i+1}_{instrument}".
C16_TrackPerVoice ==
    pc = "done" =>
        \A i \in 0..(Len(voices) - 1) :
            \E n \in returned :
                n.track = track_name_of(i + 1, voices[i + 1].instrument)

\* C17: the number of returned notes, voice notes and transition notes
\* together, is at most (floor(duration / seconds_per_beat) + 1) times the
\* number of voices.
C17_NoteCountBound ==
    (pc = "done" /\ duration >= 0) =>
        Len(sorted_notes) <= (initial_beats + 1) * Len(voices)

-----------------------------------------------------------------------------
(* _scale_midi as a function: every root with every mode, and with a mode
   that MODES does not hold *)

InitScale ==
    /\ root \in Range(names)
    /\ mode \in DOMAIN MODES \cup {"locrian"}
    /\ voices = <<>>
    /\ bpm = 120
    /\ duration = 0
    /\ meter = <<4, 4>>
    /\ pc = "scale"
    /\ error = ""
    /\ render_idle /\ map_idle
    /\ seed = 0
    /\ rng = 0
    /\ track_scale = <<>>
    /\ initial_beats = 0
    /\ sections = <<>>
    /\ total_beats = 0
    /\ vi = 0
    /\ si = 1
    /\ inloop = FALSE
    /\ beat = 0
    /\ beat_interval = 1
    /\ all_notes = <<>>
    /\ sorted_notes = <<>>

\* the call _scale_midi(root, mode)
ScaleCall ==
    /\ pc = "scale"
    /\ track_scale' = scale_midi(root, mode)
    /\ pc' = "scaled"
    /\ UNCHANGED <<render_vars, map_vars, params, error, seed, rng, initial_beats, sections,
                   total_beats, vi, si, inloop, beat, beat_interval,
                   all_notes, sorted_notes>>

NextScale == ScaleCall

SpecScale == InitScale /\ [][NextScale]_vars

\* C18: for each of the 12 roots and each of the 7 modes, _scale_midi returns
\* exactly 7 pitches, pairwise distinct and each in [60, 71]; for C ionian it
\* returns 60, 62, 64, 65, 67, 69, 71.
C18_ScaleInOctave ==
    (pc = "scaled" /\ mode \in DOMAIN MODES) =>
        /\ Len(track_scale) = 7
        /\ \A k \in DOMAIN track_scale :
              track_scale[k] >= 60 /\ track_scale[k] <= 71
        /\ \A k, l \in DOMAIN track_scale :
              k # l => track_scale[k] # track_scale[l]
        /\ (root = "C" /\ mode = "ionian") =>
              track_scale = <<60, 62, 64, 65, 67, 69, 71>>

\* the scale of B phrygian, whose second degree wraps around to 60
C18_Witness ==
    /\ pc = "scaled"
    /\ root = "B" /\ mode = "phrygian"
    /\ track_scale[1] = 71 /\ track_scale[2] = 60

-----------------------------------------------------------------------------
(* Parameters the composer does not know *)

\* C19: a mode that MODES does not hold is no failure: compose_track
\* completes without raising and composes with the ionian pattern.
C19_UnknownModeCompletes ==
    (mode \notin DOMAIN MODES /\ bpm > 0 /\ Len(voices) >= 1) =>
        /\ pc # "error"
        /\ pc = "done" =>
             \A n \in returned :
                 is_voice_note(n) =>
                     \E p \in Range(scale_midi(root, "ionian")) :
                         (n.midi - p) % 12 = 0

\* C20: with an unknown root, a negative duration or a tempo that is not
\* positive, compose_track fails with an error before any section is planned
\* and before any note is made, and returns no list.
C20_InvalidParamsFailFast ==
    (pc # "start"
     /\ (root \notin Range(names) \/ duration < 0 \/ bpm <= 0)) =>
        /\ pc = "error"
        /\ sections = <<>>
        /\ all_notes = <<>>

-----------------------------------------------------------------------------
(* render_wav (synth.py), on note lists with the composer's track names.
   Time is in quarters of a second, velocity in tenths, pan in hundredths,
   pan gains in tenths; a buffer sample before the limiter is in units of
   1/10000, after the limiter in ten-thousandths of full scale.  The
   waveform of a note, envelope included, is kept as a fixed signed shape:
   the model follows which samples a note is added to and with which
   weight, not the audio itself. *)

MaxRenderNotes == 2    \* longest note list handed to render_wav

\* int(sr * seconds), the time given in quarters of a second
sample_of(rate, t_q) == TruncDiv(rate * t_q, 4)

\* line 228: max(n.start + n.dur for n in notes), for a non-empty list
max_end_of(ns) ==
    CHOOSE e \in {ns[i].start + ns[i].dur : i \in DOMAIN ns} :
        \A i \in DOMAIN ns : ns[i].start + ns[i].dur <= e

\* lines 228-230: int(sr * (max(...) + 0.5))
buffer_len_of(ns, rate) == sample_of(rate, max_end_of(ns) + 2)

\* an index of a Python slice brought into 0..size
slice_index(size, ix) ==
    IF ix < 0 THEN Max(0, ix + size) ELSE Min(ix, size)

\* y[lo:hi] on a buffer of the given size: the 0-based indices it selects
slice_of(size, lo, hi) ==
    {j \in 0..(size - 1) :
        j >= slice_index(size, lo) /\ j < slice_index(size, hi)}

\* y[lo:hi] += sig: NumPy adds a signal of the slice's length, or repeats a
\* signal of length 1; any other length is a ValueError
addable(size, lo, hi, length) ==
    \/ Cardinality(slice_of(size, lo, hi)) = length
    \/ length = 1

\* _equal_power_pan: <<cos, sin>> of (clip(pan) + 1) * pi / 4, in tenths
equal_power_pan(pan) ==
    LET p == clip(pan, -100, 100)
    IN  IF p <= -100 THEN <<10, 0>>
        ELSE IF p < 0 THEN <<9, 5>>
        ELSE IF p = 0 THEN <<7, 7>>
        ELSE IF p < 100 THEN <<5, 9>>
        ELSE <<0, 10>>

\* the instruments _synthesize_instrument and _get_envelope know by name
InstrumentIds ==
    {<<"pluck">>, <<"bell">>, <<"marimba">>, <<"pad", "glass">>,
     <<"pad", "warm">>, <<"lead", "clean">>, <<"brass", "short">>}

\* lines 262-268: n.track.split("_") and parts[2], the third part
parts_of(track) == track
instrument_of(track) ==
    IF Len(parts_of(track)) >= 3 THEN <<parts_of(track)[3]>> ELSE <<"pluck">>

\* _synthesize_instrument: the branch an instrument name selects
recipe_of(instrument) ==
    IF instrument \in InstrumentIds THEN instrument ELSE <<"sine">>

\* n.track.startswith("voice_") and n.track.startswith("transition_")
starts_with_voice(track) == Len(track) >= 2 /\ track[1] = "voice"
starts_with_transition(track) == Len(track) >= 2 /\ track[1] = "transition"

\* the enveloped waveform of a pitched note at sample k (0-based)
wave(k) == IF k % 2 = 0 THEN 1 ELSE -2

\* np.random.randn: the state after j draws, and the j-th drawn value
RECURSIVE randn_state(_, _)
randn_state(s, j) == IF j = 0 THEN s ELSE randn_state(rng_next(s), j - 1)
randn_value(s, j) == (randn_state(s, j) % 5) - 2

\* _apply_1pole_lpf(noise, 8000, sr) at sample k: a = 1 - exp(-2 pi 8000/sr),
\* 0.68 at 44.1 kHz
RECURSIVE lpf(_, _, _)
lpf(s, g, k) ==
    IF k < 0 THEN 0
    ELSE TruncDiv(68 * g * randn_value(s, k) + 32 * lpf(s, g, k - 1), 100)

\* lines 261-338: the signal of a note, sample k of its length samples
sig_of(n, k, s) ==
    IF starts_with_voice(n.track) THEN wave(k) * n.vel * 12
    ELSE IF n.track = <<"transition", "swell">>
         THEN randn_value(s, k) * 30 * n.vel
    ELSE IF n.track = <<"transition", "fill">>
         THEN IF n.midi = 36 THEN (40 * wave(k) + 10 * randn_value(s, k)) * n.vel
              ELSE IF n.midi = 38
                   THEN (30 * wave(k) + 40 * randn_value(s, k)) * n.vel
              ELSE lpf(s, 20, k) * n.vel
    ELSE IF starts_with_transition(n.track)
         THEN randn_value(s, k) * 10 * n.vel
    ELSE wave(k) * n.vel * 15

\* the number of values the signal of a note draws from np.random
draws_of(n, length) ==
    IF starts_with_transition(n.track) THEN length ELSE 0

\* lines 369-377: y[start:start+length, c] += sig * gain
mixed(buf, n, start, length, s) ==
    LET size == Len(buf)
        into == slice_of(size, start, start + length)
        first == slice_index(size, start)
        gains == equal_power_pan(n.pan)
    IN  [j \in 1..size |->
            IF (j - 1) \in into
            THEN LET k == IF length = 1 THEN 0 ELSE (j - 1) - first
                 IN  <<buf[j][1] + sig_of(n, k, s) * gains[1],
                       buf[j][2] + sig_of(n, k, s) * gains[2]>>
            ELSE buf[j]]

\* np.max(np.abs(y)) of a non-empty buffer
peak_of(buf) ==
    CHOOSE m \in {Abs(buf[j][c]) : j \in DOMAIN buf, c \in 1..2} :
        \A j \in DOMAIN buf, c \in 1..2 : Abs(buf[j][c]) <= m

\* a variant that takes the peak of the left channel alone
mx_left(buf) ==
    LET m == CHOOSE m \in {Abs(buf[j][1]) : j \in DOMAIN buf} :
                 \A j \in DOMAIN buf : Abs(buf[j][1]) <= m
    IN  IF m = 0 THEN 1 ELSE m

\* line 399: float(np.max(np.abs(y)) or 1.0)
mx_of(buf) == IF peak_of(buf) = 0 THEN 1 ELSE peak_of(buf)

\* line 400: y / mx * 0.98
limited(buf) ==
    [j \in DOMAIN buf |-> <<TruncDiv(buf[j][1] * 9800, mx_of(buf)),
                            TruncDiv(buf[j][2] * 9800, mx_of(buf))>>]

\* a Note as the composer builds it
render_note(start, dur, midi, vel, track, pan) ==
    [start |-> start, dur |-> dur, midi |-> midi, vel |-> vel,
     track |-> track, pan |-> pan]

\* notes of the seven instruments, one per voice
InstrumentNotes ==
    {render_note(0, 4, 60, 8, track_name_of(0, <<"pluck">>), 0),
     render_note(2, 2, 64, 4, track_name_of(1, <<"bell">>), -100),
     render_note(4, 2, 67, 8, track_name_of(2, <<"marimba">>), 100),
     render_note(0, 2, 60, 8, track_name_of(3, <<"pad", "glass">>), 0),
     render_note(2, 4, 62, 4, track_name_of(4, <<"pad", "warm">>), -30),
     render_note(4, 4, 65, 8, track_name_of(5, <<"lead", "clean">>), 30),
     render_note(2, 2, 71, 4, track_name_of(6, <<"brass", "short">>), 0)}

\* notes of no length, and notes that start before time 0
EdgeNotes ==
    {render_note(2, 0, 60, 8, track_name_of(0, <<"pluck">>), 0),
     render_note(-4, 2, 60, 8, track_name_of(0, <<"pluck">>), 0),
     render_note(-1, 4, 60, 8, track_name_of(0, <<"pluck">>), 0)}

\* the notes of _create_transition_notes
TransitionNotes ==
    {render_note(2, 4, 49, 3, <<"transition", "swell">>, 0),
     render_note(2, 2, 36, 4, <<"transition", "fill">>, -30),
     render_note(3, 2, 42, 4, <<"transition", "fill">>, 30)}

RenderNoteVals == InstrumentNotes \cup EdgeNotes \cup TransitionNotes
SrVals == {2, 4}

InitRender ==
    /\ notes \in UNION {[1..k -> RenderNoteVals] : k \in 0..MaxRenderNotes}
    /\ sr \in SrVals
    /\ np_random \in 0..MaxSeed
    /\ y = <<>>
    /\ processed = 0
    /\ synthesized = <<>>
    /\ pc = "render"
    /\ error = ""
    /\ map_idle
    /\ voices = <<>> /\ root = "C" /\ mode = "ionian" /\ bpm = 120
    /\ duration = 0 /\ meter = <<4, 4>>
    /\ seed = 0 /\ rng = 0 /\ track_scale = <<>>
    /\ initial_beats = 0 /\ sections = <<>> /\ total_beats = 0
    /\ vi = 0 /\ si = 1 /\ inloop = FALSE /\ beat = 0 /\ beat_interval = 1
    /\ all_notes = <<>> /\ sorted_notes = <<>>

\* the variables of the composer, which the renderer leaves alone
compose_vars == <<params, seed, rng, track_scale, initial_beats, sections,
                  total_beats, vi, si, inloop, beat, beat_interval,
                  all_notes, sorted_notes>>

\* lines 227-230: size and allocate the buffer (max() of an empty list and
\* np.zeros of a negative size raise ValueError)
RenderBegin ==
    /\ pc = "render"
    /\ IF notes = <<>> \/ buffer_len_of(notes, sr) < 0
       THEN /\ pc' = "error" /\ error' = "ValueError"
            /\ UNCHANGED y
       ELSE /\ y' = [j \in 1..buffer_len_of(notes, sr) |-> <<0, 0>>]
            /\ pc' = "render_loop"
            /\ error' = error
    /\ UNCHANGED <<notes, sr, processed, np_random, synthesized, map_vars,
                   compose_vars>>

\* the note the loop of render_wav is at, its first sample and its length
this_note == notes[processed + 1]
this_start == sample_of(sr, this_note.start)
this_length == sample_of(sr, this_note.dur)

\* lines 251-254: a note of no length is passed over
RenderSkip ==
    /\ pc = "render_loop" /\ processed < Len(notes)
    /\ this_length <= 0
    /\ processed' = processed + 1
    /\ UNCHANGED <<notes, sr, y, np_random, synthesized, pc, error, map_vars,
                   compose_vars>>

\* lines 256-377: synthesize the note and add it into the buffer
RenderMix ==
    /\ pc = "render_loop" /\ processed < Len(notes)
    /\ this_length > 0
    /\ synthesized' =
         IF starts_with_voice(this_note.track)
         THEN Append(synthesized,
                     [note |-> processed + 1,
                      instrument |-> instrument_of(this_note.track),
                      recipe |-> recipe_of(instrument_of(this_note.track))])
         ELSE synthesized
    /\ np_random' = randn_state(np_random, draws_of(this_note, this_length))
    /\ IF addable(Len(y), this_start, this_start + this_length, this_length)
       THEN /\ y' = mixed(y, this_note, this_start, this_length, np_random)
            /\ processed' = processed + 1
            /\ UNCHANGED <<pc, error>>
       ELSE /\ pc' = "error" /\ error' = "ValueError"
            /\ UNCHANGED <<y, processed>>
    /\ UNCHANGED <<notes, sr, map_vars, compose_vars>>

\* lines 379-401: no legacy lead notes to delay; the limiter (np.max of a
\* buffer of no samples raises ValueError)
RenderLimit ==
    /\ pc = "render_loop" /\ processed = Len(notes)
    /\ IF y = <<>>
       THEN /\ pc' = "error" /\ error' = "ValueError"
            /\ UNCHANGED y
       ELSE /\ y' = limited(y)
            /\ pc' = "rendered"
            /\ error' = error
    /\ UNCHANGED <<notes, sr, processed, np_random, synthesized, map_vars,
                   compose_vars>>

NextRender ==
    \/ RenderBegin
    \/ RenderSkip
    \/ RenderMix
    \/ RenderLimit

SpecRender == InitRender /\ [][NextRender]_vars

-----------------------------------------------------------------------------
(* The renderer: degenerate inputs, mixing and the limiter *)

\* the buffer holds only zeros
all_zero(buf) == \A j \in DOMAIN buf : buf[j] = <<0, 0>>

\* C21: render_wav of an empty note list raises no exception and produces a
\* minimal buffer that holds only zeros.
C21_EmptyListRenders ==
    notes = <<>> =>
        /\ pc # "error"
        /\ pc = "rendered" => all_zero(y)


\* a step of the loop of render_wav over the note this_note
render_note_step ==
    /\ pc = "render_loop" /\ processed < Len(notes)
    /\ (processed' = processed + 1 \/ pc' = "error")

\* the samples of this_note lie outside the buffer
outside_buffer ==
    this_start < 0 \/ this_start + this_length > Len(y)

\* the step adds this_note into the samples this_start ..
\* this_start + this_length - 1 of both channels, and into no other
added_in_place ==
    /\ pc' # "error"
    /\ Len(y') = Len(y)
    /\ this_start >= 0 /\ this_start + this_length <= Len(y)
    /\ \A j \in DOMAIN y :
          IF j - 1 >= this_start /\ j - 1 < this_start + this_length
          THEN \A c \in 1..2 :
                  y'[j][c] = y[j][c]
                    + sig_of(this_note, j - 1 - this_start, np_random)
                      * equal_power_pan(this_note.pan)[c]
          ELSE y'[j] = y[j]

\* C22: a note of sample length zero, or whose samples lie outside the
\* buffer (a negative start), is skipped without an exception and leaves the
\* buffer as it is; every other note is added into exactly the samples
\* start .. start + length - 1 of both channels, inside the buffer.
C22_SkipOrAddInPlace ==
    [][render_note_step =>
         IF this_length <= 0 \/ outside_buffer
         THEN pc' # "error" /\ y' = y
         ELSE added_in_place]_vars


\* the step of render_wav that applies the limiter
limiter_step == pc = "render_loop" /\ pc' = "rendered"

\* the largest magnitude among the samples of a buffer
largest_magnitude(buf) ==
    LET magnitudes == {IF buf[j][c] >= 0 THEN buf[j][c] ELSE -buf[j][c] :
                           j \in DOMAIN buf, c \in 1..2}
    IN  CHOOSE m \in magnitudes : \A x \in magnitudes : x <= m

\* C23: after all notes are mixed the buffer is scaled once, every sample of
\* both channels by the same factor 0.98 / peak, so that the largest
\* magnitude over both channels is 0.98 when some sample is not zero; a
\* silent buffer takes the peak as 1.0 and stays all zeros.
C23_LimiterPeak ==
    [][limiter_step =>
         /\ Len(y') = Len(y)
         /\ IF all_zero(y)
            THEN all_zero(y')
            ELSE /\ largest_magnitude(y') = 9800
                 /\ \A j \in DOMAIN y, c \in 1..2 :
                       y'[j][c] = TruncDiv(y[j][c] * 9800,
                                           largest_magnitude(y))]_vars

\* a limited buffer whose peak is a negative sample of the right channel,
\* with a weaker left channel
C23_Witness ==
    /\ pc = "rendered"
    /\ \E j \in DOMAIN y : y[j][2] = -9800
    /\ \A j \in DOMAIN y : Abs(y[j][1]) < 9800
    /\ \E j \in DOMAIN y : y[j][1] # 0

-----------------------------------------------------------------------------
(* Sources of randomness *)

\* C27: all randomness of a run, the noise of the rendered transition and
\* drum notes included, comes from the one generator seeded at the start of
\* the composition run: no step draws from another random source, so the
\* state of NumPy's global generator never changes.
C27_SingleGenerator ==
    [][np_random' = np_random]_vars

-----------------------------------------------------------------------------
(* Track names between the composer and the renderer *)

\* the instrument id the composer put into a voice track name
\* (compose.py line 243: f"voice_{voice_id}_{voice.instrument}")
encoded_instrument(track) == SubSeq(track, 3, Len(track))

\* C28: for each of the seven instrument ids and every voice index, the
\* instrument render_wav reads from the track name "voice_{index}_{id}" is
\* the voice's instrument id, and the note is synthesized with that
\* instrument's recipe, not with the sine fallback.
C28_InstrumentRoundTrip ==
    \A e \in Range(synthesized) :
        encoded_instrument(notes[e.note].track) \in InstrumentIds =>
            /\ e.instrument = encoded_instrument(notes[e.note].track)
            /\ e.recipe = encoded_instrument(notes[e.note].track)
            /\ e.recipe # <<"sine">>

-----------------------------------------------------------------------------
(* map_features_to_music (mapping.py).  brightness, contrast, edge_density,
   palette_variance, texture_energy, cx, cy, intensity and pan_lead are in
   hundredths; weights are in hundredths; a hue is a fraction of degrees. *)

MaxFeatSeed == 15      \* feats.seed ranges over 0..MaxFeatSeed

PROGRESSIONS ==
    [bright |-> << <<"I", "V", "vi", "IV">>, <<"I", "vi", "IV", "V">>,
                   <<"I", "IV", "V", "I">> >>,
     modal  |-> << <<"i", "bVII", "IV", "i">>, <<"i", "IV", "bVII", "i">>,
                   <<"i", "bVI", "bVII", "i">> >>,
     dark   |-> << <<"i", "bII", "bVI", "V">>, <<"i", "iv", "V", "i">>,
                   <<"i", "VI", "III", "VII">> >>]

\* a variant that spells the sharp keys as flats
HUES_TO_KEYS_flats ==
    <<"C", "G", "D", "A", "E", "B", "Gb", "Db", "Ab", "Eb", "Bb", "F">>

HUES_TO_KEYS == <<"C", "G", "D", "A", "E", "B", "F#", "C#", "Ab", "Eb", "Bb", "F">>

Max3(a, b, c) == Max(a, Max(b, c))
Min3(a, b, c) == Min(a, Min(b, c))

\* _rgb_to_hue: the hue in degrees as the fraction <<numerator, denominator>>
rgb_to_hue(rgb) ==
    LET r == rgb[1]
        g == rgb[2]
        b == rgb[3]
        mx == Max3(r, g, b)
        mn == Min3(r, g, b)
        d == mx - mn
    IN  IF mx = mn THEN <<0, 1>>
        ELSE IF mx = r THEN <<(60 * (g - b) + 360 * d) % (360 * d), d>>
        ELSE IF mx = g THEN <<(60 * (b - r) + 120 * d) % (360 * d), d>>
        ELSE <<(60 * (r - g) + 240 * d) % (360 * d), d>>

\* line 136: max(feats.palette_rgb, key=lambda c: sum(c)), the first of the
\* colours with the largest sum
rgb_sum(c) == c[1] + c[2] + c[3]
root_rgb_of(palette) ==
    palette[CHOOSE i \in DOMAIN palette :
                /\ \A j \in DOMAIN palette : rgb_sum(palette[j]) <= rgb_sum(palette[i])
                /\ \A j \in 1..(i - 1) : rgb_sum(palette[j]) < rgb_sum(palette[i])]

\* lines 137-139: int(hue // 30) % 12 and the key it names
key_ix_of(hue) == (hue[1] \div (30 * hue[2])) % 12
root_of(palette) == HUES_TO_KEYS[key_ix_of(rgb_to_hue(root_rgb_of(palette))) + 1]

\* rng.choice(options, p=weights): the option whose span of the cumulative
\* weights holds the drawn fraction
RECURSIVE pick_weighted(_, _, _, _)
pick_weighted(options, weights, i, u) ==
    IF i >= Len(options) \/ u < weights[i] THEN options[i]
    ELSE pick_weighted(options, weights, i + 1, u - weights[i])
weighted_choice(options, weights, s) ==
    pick_weighted(options, weights, 1, (100 * s) \div RngMod)

\* _select_mode (one draw)
select_mode(brightness, palette_variance, s) ==
    IF brightness > 70
    THEN weighted_choice(<<"ionian", "lydian", "mixolydian", "dorian">>,
                         <<40, 30, 20, 10>>, s)
    ELSE IF brightness < 30
    THEN IF palette_variance > 50
         THEN weighted_choice(<<"phrygian", "harm_minor", "aeolian", "dorian">>,
                              <<30, 30, 20, 20>>, s)
         ELSE weighted_choice(<<"aeolian", "dorian", "phrygian", "harm_minor">>,
                              <<40, 30, 20, 10>>, s)
    ELSE weighted_choice(<<"dorian", "mixolydian", "aeolian", "ionian",
                           "phrygian", "lydian">>,
                         <<25, 25, 20, 15, 10, 5>>, s)

\* _select_meter: the meter and the generator state after it
select_meter(texture_energy, s) ==
    IF texture_energy > 80
    THEN [meter |-> weighted_choice(<< <<6, 8>>, <<5, 4>> >>, <<70, 30>>, s),
          rng |-> rng_next(s)]
    ELSE IF texture_energy > 50 THEN [meter |-> <<6, 8>>, rng |-> s]
    ELSE IF texture_energy < 20
    THEN [meter |-> weighted_choice(<< <<3, 4>>, <<4, 4>> >>, <<60, 40>>, s),
          rng |-> rng_next(s)]
    ELSE [meter |-> <<4, 4>>, rng |-> s]

\* _select_progression (one draw)
select_progression(m, s) ==
    LET category == IF m \in {"ionian", "lydian"} THEN "bright"
                    ELSE IF m \in {"dorian", "mixolydian"} THEN "modal"
                    ELSE "dark"
    IN  PROGRESSIONS[category][rng_choice(s, 3)]

\* a variant of the tempo law that spans 80..160
base_bpm_wide(brightness) ==
    TruncDiv(8000 + (160 - 80) * Max(0, Min(100, brightness)), 100)

\* line 155: int(80 + (140 - 80) * max(0.0, min(1.0, brightness)))
base_bpm_of(brightness) ==
    TruncDiv(8000 + (140 - 80) * Max(0, Min(100, brightness)), 100)

\* lines 176-191: the tempo after the style
styled_bpm(tempo, st) ==
    IF st = "ambient" THEN Max(60, tempo - 20)
    ELSE IF st = "cinematic" THEN Min(150, tempo + 10)
    ELSE IF st = "rock" THEN Min(160, tempo + 20)
    ELSE tempo

\* lines 174-191: the legacy scale quality after the style
styled_scale(m, st) ==
    IF st = "ambient" THEN "major"
    ELSE IF st = "rock" THEN "minor"
    ELSE IF m \in {"ionian", "lydian", "mixolydian"} THEN "major"
    ELSE "minor"

\* lines 128-213
map_features_to_music(f, st, target) ==
    LET s0 == default_rng(f.seed)
        m == select_mode(f.brightness, f.palette_variance, s0)
        met == select_meter(f.texture_energy, rng_next(s0))
        r == root_of(f.palette_rgb)
    IN  [bpm         |-> styled_bpm(base_bpm_of(f.brightness), st),
         scale       |-> <<r, styled_scale(m, st)>>,
         root        |-> r,
         instruments |-> IF st \in {"ambient", "cinematic"}
                         THEN <<"pad", "lead", "bass">>
                         ELSE <<"piano", "lead", "drums">>,
         intensity   |-> Min(100, (f.edge_density + f.contrast) \div 2),
         duration    |-> target,
         mode        |-> m,
         meter       |-> met.meter,
         progression |-> select_progression(m, met.rng),
         pan_lead    |-> Max(-60, Min(60, ((f.cx - 50) * 12) \div 10)),
         lead_offset |-> Max(-5, Min(5, TruncDiv((f.cy - 50) * 10, 100)))]

\* ImageFeatures records: every field normalized to [0, 1] (features.py)
BrightnessVals == {0, 20, 29, 30, 60, 70, 71, 80, 100}
\* one colour in each twelfth of the hue circle
HueColours ==
    {<<255, 64, 0>>, <<255, 191, 0>>, <<191, 255, 0>>, <<64, 255, 0>>,
     <<0, 255, 64>>, <<0, 255, 191>>, <<0, 191, 255>>, <<0, 64, 255>>,
     <<64, 0, 255>>, <<191, 0, 255>>, <<255, 0, 191>>, <<255, 0, 64>>}
PaletteVals ==
    {<<c>> : c \in HueColours}
    \cup {<< <<0, 0, 255>>, <<200, 200, 200>> >>,
          << <<50, 50, 50>>, <<0, 255, 0>>, <<255, 0, 0>> >>}
EdgeContrastVals == {<<0, 0>>, <<40, 100>>}
CentreVals == {<<0, 100>>, <<50, 50>>}
FeatureVals ==
    [brightness : BrightnessVals, contrast : {0, 100}, edge_density : {0, 40},
     palette_rgb : PaletteVals, palette_variance : {30, 70},
     texture_energy : {10, 30, 60, 90}, cx : {0, 50}, cy : {50, 100},
     seed : 0..MaxFeatSeed]
StyleVals == {"neutral", "ambient", "cinematic", "rock"}
TargetVals == {5, 20}

InitMap ==
    /\ feats \in {f \in FeatureVals :
                    /\ <<f.edge_density, f.contrast>> \in EdgeContrastVals
                    /\ <<f.cx, f.cy>> \in CentreVals}
    /\ style \in StyleVals
    /\ target_duration \in TargetVals
    /\ music = <<>>
    /\ pc = "map"
    /\ error = ""
    /\ render_idle
    /\ voices = <<>> /\ root = "C" /\ mode = "ionian" /\ bpm = 120
    /\ duration = 0 /\ meter = <<4, 4>>
    /\ seed = 0 /\ rng = 0 /\ track_scale = <<>>
    /\ initial_beats = 0 /\ sections = <<>> /\ total_beats = 0
    /\ vi = 0 /\ si = 1 /\ inloop = FALSE /\ beat = 0 /\ beat_interval = 1
    /\ all_notes = <<>> /\ sorted_notes = <<>>

\* the call map_features_to_music(feats, style, target_duration)
MapCall ==
    /\ pc = "map"
    /\ music' = map_features_to_music(feats, style, target_duration)
    /\ pc' = "mapped"
    /\ UNCHANGED <<feats, style, target_duration, error, render_vars,
                   compose_vars>>

NextMap == MapCall

SpecMap == InitMap /\ [][NextMap]_vars

-----------------------------------------------------------------------------
(* The mapper's tempo, legacy scale and key *)

mapped == pc = "mapped"

\* floor(80 + 60 * brightness), the tempo the neutral style gives
neutral_bpm == (8000 + 60 * feats.brightness) \div 100

C25_ScaleByBrightness ==
    mapped =>
        /\ music.scale[1] = music.root
        /\ style = "ambient" => music.scale[2] = "major"
        /\ style = "rock" => music.scale[2] = "minor"
        /\ (style = "neutral" /\ feats.brightness > 70) => music.scale[2] = "major"
        /\ (style = "neutral" /\ feats.brightness < 30) => music.scale[2] = "minor"

-----------------------------------------------------------------------------
(* Progress of the note loop (_compose_voice_track lines 262-297) *)

\* inside the while loop the step is at least 1 and the beat counter has
\* not passed the section's end by a whole step
loop_bounded ==
    (pc = "voices" /\ inloop) =>
        /\ beat_interval >= 1
        /\ beat >= sections[si].start_beat
        /\ beat < sections[si].end_beat + beat_interval

\* every voice note starts on a whole beat of a section its voice is
\* active in
notes_in_active_sections ==
    \A n \in composed :
        is_voice_note(n) =>
            \E i \in DOMAIN sections :
                /\ voice_index_of(n) \in Range(sections[i].active_voices)
                /\ \E b \in sections[i].start_beat..(sections[i].end_beat - 1) :
                      n.start = b * 60000

\* an iteration of the while loop: a note is emitted and the beat moves
loop_iteration == pc = "voices" /\ inloop /\ all_notes' # all_notes

\* C26: for a voice with activity > 0 the note loop terminates: every
\* iteration happens below the section's end_beat and moves the beat counter
\* up by a step of at least 1, and a voice emits notes only on whole beats
\* inside the sections in which it is active.
C26_LoopProgress ==
    /\ [](loop_bounded /\ notes_in_active_sections)
    /\ [][loop_iteration =>
            /\ beat < sections[si].end_beat
            /\ beat' >= beat + 1
            /\ sections[si].end_beat - beat' < sections[si].end_beat - beat]_vars

\* the loop of a sparse voice, two iterations into a section, stepping by
\* more than one beat
C26_Witness ==
    /\ pc = "voices" /\ inloop
    /\ beat_interval >= 2
    /\ beat = sections[si].start_beat + 2 * beat_interval
    /\ \E n \in composed :
          /\ is_voice_note(n)
          /\ n.start = (sections[si].start_beat + beat_interval) * 60000

-----------------------------------------------------------------------------
(* Voice indices of the planned sections *)

\* C29: for every voice list, the empty one included, each section's
\* active_voices holds only indices i with 0 <= i < number of voices and no
\* index twice, so compose_track never indexes the voices out of range.
C29_ActiveIndicesInRange ==
    pc # "start" =>
        /\ error # "IndexError"
        /\ \A i \in DOMAIN sections :
              LET act == sections[i].active_voices
              IN  /\ \A k \in DOMAIN act : act[k] >= 0 /\ act[k] < Len(voices)
                  /\ \A k, l \in DOMAIN act : k # l => act[k] # act[l]

-----------------------------------------------------------------------------
(* The mapper's output as the composer's input *)

=============================================================================
